---- MODULE Spec2Model ----
(***************************************************************************)
(* A model of Opteo/maps (src/src/maps.ts): the coordinate condenser, the  *)
(* shape / URL builder and the generateMapUrl pipeline.                    *)
(*                                                                         *)
(* Conventions.                                                            *)
(*  - A raw coordinate is <<longitude, latitude>>; a ring is a sequence of *)
(*    raw coordinates; a polygon is a sequence of rings.                   *)
(*  - Sequences are 1-based here and 0-based in the source: the source's   *)
(*    index i is position i + 1.                                           *)
(*  - An optional JavaScript value is <<>> (undefined) or <<v>>.           *)
(*  - A string is a sequence of one-character strings; a URL is a sequence *)
(*    of tokens, one per piece the source concatenates.                    *)
(*  - The raw coordinates are drawn from a 3-4-5 triangle, so that every   *)
(*    separation Math.sqrt computes is an integer and the arithmetic of    *)
(*    the source is exact in the integers.                                 *)
(***************************************************************************)
EXTENDS Integers, Sequences, FiniteSets, TLC

VARIABLES
    constants,      \* the exported, mutable `constants` object (maps.ts:28)
    pc,             \* "idle" | "await" (generateMapUrl suspended on the request) | "done"
    call,           \* the exported function the current call entered
    location,       \* argument: optional Location
    apiKey,         \* argument: optional string
    geoJsonArg,     \* the geometry as it was handed to condenseCoordinates
    geoJson,        \* the same object after the call (sort works in place)
    rawCoordinates, \* local of condenseCoordinates: the rings it maps over
    frequencies,    \* local distance_interval_frequency, one per ring mapped
    coordinates,    \* Coordinate[][]: condensed rings (argument or result)
    result,         \* what the call returned or threw
    requests,       \* the requests issued to OpenStreetMap by the current call
    openStreetMapResponses, \* optional: the candidates the request resolved to
    openStreetMapResponse   \* optional: the candidate doOpenStreetMapRequest chose

vars == <<constants, pc, call, location, apiKey, geoJsonArg, geoJson,
          rawCoordinates, frequencies, coordinates, result, requests,
          openStreetMapResponses, openStreetMapResponse>>

----------------------------------------------------------------------------
(* Bounds of the model. *)

MaxRingLen == 3
MaxPolygons == 3
MaxNameLen == 2
MaxRings == 2
MaxCandidates == 2

----------------------------------------------------------------------------
(* types.ts *)

NO_API_KEY == "No Google Maps API key was provided."
NO_LOCATION == "No Google location was provided."
FAILED_OPENSTREETMAP_REQUEST == "OpenStreetMap request failed."
UNKNOWN_GEOJSON_TYPE == "Unknown OpenStreetMap geojson location type."
NO_COORDINATES_FOUND == "No coordinates found."
\* Not of types.ts: the engine's TypeError for a property read on undefined.
TYPE_ERROR == "TypeError"

POINT == "Point"
LINESTRING == "LineString"
POLYGON == "Polygon"
MULTIPOLYGON == "MultiPolygon"

----------------------------------------------------------------------------
(* maps.ts: the tunable constants. *)

DISTANCE_INTERVAL_FREQUENCY == 200
MAX_POLYGON_COUNT == 10
COARSE_FREQUENCY == 10

DefaultConstants ==
    [DISTANCE_INTERVAL_FREQUENCY |-> DISTANCE_INTERVAL_FREQUENCY,
     MAX_POLYGON_COUNT |-> MAX_POLYGON_COUNT]

\* The values a caller assigns to the exported constants, as the tests do.
FrequencyValues == {1, 2, DISTANCE_INTERVAL_FREQUENCY}
PolygonCountValues == {1, 2, MAX_POLYGON_COUNT}

----------------------------------------------------------------------------
(* Helpers for sequences. *)

Min(a, b) == IF a <= b THEN a ELSE b

Abs(x) == IF x < 0 THEN -x ELSE x

RECURSIVE Flatten(_)
Flatten(ss) == IF ss = <<>> THEN <<>> ELSE Head(ss) \o Flatten(Tail(ss))

SeqsUpTo(S, lo, hi) == UNION {[1..n -> S] : n \in lo..hi}

----------------------------------------------------------------------------
(* calculateCoordinateSeparation *)

\* Math.sqrt on the perfect squares the model's coordinates produce.
Sqrt(n) == CHOOSE r \in 0..n : r * r <= n /\ (r + 1) * (r + 1) > n

calculateCoordinateSeparation(coordinateA, coordinateB) ==
    LET longitudinallDifference == Abs(coordinateA[1] - coordinateB[1])
        latitudinalDifference == Abs(coordinateA[2] - coordinateB[2])
    IN  Sqrt(longitudinallDifference * longitudinallDifference
             + latitudinalDifference * latitudinalDifference)

----------------------------------------------------------------------------
(* condenseCoordinates *)

\* Faulty variant: the comparator's operands swapped (a[0].length - b[0].length).
InsertAscending(sorted, polygon) ==
    LET before == {i \in 1..Len(sorted) : Len(sorted[i][1]) <= Len(polygon[1])}
        k == Cardinality(before)
    IN  SubSeq(sorted, 1, k) \o <<polygon>> \o SubSeq(sorted, k + 1, Len(sorted))

\* geoJson.coordinates.sort((a, b) => b[0].length - a[0].length): the
\* comparator orders by first-ring length, descending; Array.prototype.sort
\* is stable, so equal lengths keep their order.  The sort is modelled as
\* the stable insertion of each polygon in turn.
InsertSorted(sorted, polygon) ==
    LET before == {i \in 1..Len(sorted) : Len(sorted[i][1]) >= Len(polygon[1])}
        k == Cardinality(before)
    IN  SubSeq(sorted, 1, k) \o <<polygon>> \o SubSeq(sorted, k + 1, Len(sorted))

RECURSIVE SortPolygons(_)
SortPolygons(polygons) ==
    IF polygons = <<>> THEN <<>>
    ELSE InsertSorted(SortPolygons(SubSeq(polygons, 1, Len(polygons) - 1)),
                      polygons[Len(polygons)])

\* Faulty variant: the slice left out.
SliceAll(polygons, count) == polygons

\* .slice(0, constants.MAX_POLYGON_COUNT)
Slice(polygons, count) == SubSeq(polygons, 1, Min(count, Len(polygons)))

\* .forEach(polygon => rawCoordinates.push(...polygon))
PushRings(polygons) == Flatten(polygons)

\* The first loop: every coordinate with the distance to its predecessor.
CoordinatesWithDistances(polygon) ==
    [i \in 1..Len(polygon) |->
        [longitude |-> polygon[i][1],
         latitude |-> polygon[i][2],
         distance |-> IF i = 1 THEN 0
                      ELSE calculateCoordinateSeparation(polygon[i], polygon[i - 1])]]

RECURSIVE SumDistances(_)
SumDistances(cs) ==
    IF cs = <<>> THEN 0 ELSE Head(cs).distance + SumDistances(Tail(cs))

TotalDistance(polygon) == SumDistances(CoordinatesWithDistances(polygon))

\* distance_interval_frequency of the ring at source index `index`.
FrequencyOf(type, index, consts) ==
    IF type = MULTIPOLYGON /\ index > 1
    THEN COARSE_FREQUENCY
    ELSE consts.DISTANCE_INTERVAL_FREQUENCY

\* Faulty variant: >= for >.
ExceedsOrMeets(distanceAccumulator, totalDistance, frequency) ==
    distanceAccumulator * frequency >= totalDistance

\* distanceAccumulator > distanceInterval, with distanceInterval =
\* totalDistance / frequency and frequency > 0: the quotient is kept exact
\* by comparing distanceAccumulator * frequency with totalDistance.
Exceeds(distanceAccumulator, totalDistance, frequency) ==
    distanceAccumulator * frequency > totalDistance

\* The forEach over coordinatesWithDistances, from position i on.
RECURSIVE TakeFrom(_, _, _, _, _)
TakeFrom(cs, i, distanceAccumulator, totalDistance, frequency) ==
    IF i > Len(cs) THEN <<>>
    ELSE LET acc == distanceAccumulator + cs[i].distance
         IN  IF i = 1
             THEN <<cs[i]>> \o TakeFrom(cs, i + 1, acc, totalDistance, frequency)
             ELSE IF Exceeds(acc, totalDistance, frequency)
                  THEN <<cs[i]>> \o TakeFrom(cs, i + 1, 0, totalDistance, frequency)
                  ELSE TakeFrom(cs, i + 1, acc, totalDistance, frequency)

\* Faulty variant: the first coordinate is not taken for being first.
RECURSIVE TakeByThresholdOnly(_, _, _, _, _)
TakeByThresholdOnly(cs, i, distanceAccumulator, totalDistance, frequency) ==
    IF i > Len(cs) THEN <<>>
    ELSE LET acc == distanceAccumulator + cs[i].distance
         IN  IF Exceeds(acc, totalDistance, frequency)
             THEN <<cs[i]>> \o TakeByThresholdOnly(cs, i + 1, 0, totalDistance, frequency)
             ELSE TakeByThresholdOnly(cs, i + 1, acc, totalDistance, frequency)

CondenseRingFromThreshold(polygon, frequency) ==
    TakeByThresholdOnly(CoordinatesWithDistances(polygon), 1, 0,
                        TotalDistance(polygon), frequency)

\* Faulty variant: the accumulator is not reset when a coordinate is taken.
RECURSIVE TakeWithoutReset(_, _, _, _, _)
TakeWithoutReset(cs, i, distanceAccumulator, totalDistance, frequency) ==
    IF i > Len(cs) THEN <<>>
    ELSE LET acc == distanceAccumulator + cs[i].distance
         IN  IF i = 1 \/ Exceeds(acc, totalDistance, frequency)
             THEN <<cs[i]>> \o TakeWithoutReset(cs, i + 1, acc, totalDistance, frequency)
             ELSE TakeWithoutReset(cs, i + 1, acc, totalDistance, frequency)

CondenseRingWithoutReset(polygon, frequency) ==
    TakeWithoutReset(CoordinatesWithDistances(polygon), 1, 0,
                     TotalDistance(polygon), frequency)

\* The body of rawCoordinates.map for one ring.
CondenseRing(polygon, frequency) ==
    TakeFrom(CoordinatesWithDistances(polygon), 1, 0, TotalDistance(polygon), frequency)

\* What one call of condenseCoordinates leaves behind: the error thrown (""
\* when it returns), geoJson.coordinates after the call, the locals
\* rawCoordinates and distance_interval_frequency, and the value returned.
Condensed(error, after, raw, freqs, coords) ==
    [error |-> error, after |-> after, rawCoordinates |-> raw,
     frequencies |-> freqs, coordinates |-> coords]

\* rawCoordinates.map(...): polygon[0][0] of an absent or empty ring throws.
MapRings(type, after, raw, consts) ==
    IF \E j \in 1..Len(raw) : raw[j] = <<>>
    THEN Condensed(TYPE_ERROR, after, raw, <<>>, <<>>)
    ELSE LET freqs == [j \in 1..Len(raw) |-> FrequencyOf(type, j - 1, consts)]
         IN  Condensed("", after, raw, freqs,
                       [j \in 1..Len(raw) |-> CondenseRing(raw[j], freqs[j])])

\* geoJson.coordinates[0] of a Polygon or LineString; <<>> stands for the
\* undefined an empty coordinates array yields.
FirstRing(coords) == IF coords = <<>> THEN <<>> ELSE coords[1]

\* Faulty variant: [] for [[]].
PointReturnsNoRing(geo, consts) ==
    Condensed("", geo.coordinates, <<>>, <<>>, <<>>)

\* if (geoJson.type === OpenStreetMapLocationType.POINT) return [[]];
PointCondensed(geo, consts) ==
    Condensed("", geo.coordinates, <<>>, <<>>, << <<>> >>)

\* Faulty variant: sorted smallest first.
SortedAscending(geo, consts) ==
    LET RECURSIVE Asc(_)
        Asc(ps) == IF ps = <<>> THEN <<>>
                   ELSE InsertAscending(Asc(SubSeq(ps, 1, Len(ps) - 1)), ps[Len(ps)])
    IN  Asc(geo.coordinates)

\* geoJson.coordinates after .sort(...), which sorts in place.
SortedCoordinates(geo, consts) == SortPolygons(geo.coordinates)

condenseCoordinates(geo, consts) ==
    IF geo.type = POINT THEN PointCondensed(geo, consts)
    ELSE IF geo.type \in {POLYGON, LINESTRING}
    THEN MapRings(geo.type, geo.coordinates, <<FirstRing(geo.coordinates)>>, consts)
    ELSE IF geo.type = MULTIPOLYGON
    THEN LET sorted == SortedCoordinates(geo, consts)
         IN  MapRings(geo.type, sorted,
                      PushRings(Slice(sorted, consts.MAX_POLYGON_COUNT)), consts)
    ELSE Condensed(UNKNOWN_GEOJSON_TYPE, geo.coordinates, <<>>, <<>>, <<>>)

----------------------------------------------------------------------------
(* The geometries the model hands to condenseCoordinates. *)

PointSeq == << <<0, 0>>, <<3, 0>>, <<3, 4>> >>
Points == {PointSeq[i] : i \in 1..Len(PointSeq)}

\* The n-point walk round the triangle that starts at corner s.
Path(s, n) == [i \in 1..n |-> PointSeq[((s + i - 2) % Len(PointSeq)) + 1]]

Rings == SeqsUpTo(Points, 0, MaxRingLen)

\* Polygon / LineString coordinates: no ring, one ring, or a ring and a hole.
RingLists == {<<>>} \cup {<<r>> : r \in Rings} \cup {<<r, Path(2, 2)>> : r \in Rings}

\* The polygons of a MultiPolygon: one ring, or an outer ring and a hole.
Polygons ==
    {<<Path(1, n)>> : n \in 0..MaxRingLen}
    \cup {<<Path(2, n), Path(3, MaxRingLen)>> : n \in 1..MaxRingLen}

\* The geometries of each kind are kept in sets of their own: their
\* coordinates nest to different depths.
GeometryKinds == {POINT, POLYGON, LINESTRING, MULTIPOLYGON, "GeometryCollection"}

GeometriesOf(kind) ==
    IF kind = POINT
    THEN {[type |-> POINT, coordinates |-> p] : p \in Points}
    ELSE IF kind \in {POLYGON, LINESTRING}
    THEN {[type |-> kind, coordinates |-> c] : c \in RingLists}
    ELSE IF kind = MULTIPOLYGON
    THEN {[type |-> MULTIPOLYGON, coordinates |-> c] : c \in SeqsUpTo(Polygons, 0, MaxPolygons)}
    ELSE {[type |-> kind, coordinates |-> <<>>]}

----------------------------------------------------------------------------
(* What a call returns or throws. *)

NoGeometry == [type |-> "", coordinates |-> <<>>]
NoResult == [status |-> "none", error |-> "", url |-> <<>>]
Threw(message) == [status |-> "threw", error |-> message, url |-> <<>>]
Returned == [status |-> "returned", error |-> "", url |-> <<>>]
ReturnedUrl(url) == [status |-> "returned", error |-> "", url |-> url]

----------------------------------------------------------------------------
(* Strings and URLs. *)

\* The characters of the canonical names: a letter, the comma, a whitespace.
Chars == {"a", ",", " "}
IsSpace(c) == c = " "

Names == SeqsUpTo(Chars, 0, MaxNameLen)

\* What a template literal makes of an optional string.
UndefinedText == <<"u", "n", "d", "e", "f", "i", "n", "e", "d">>
TextOf(optional) == IF optional = <<>> THEN UndefinedText ELSE optional[1]

\* One piece of a URL: a fixed text (kind alone), a text that carries a
\* string, or the "|lat,lon" of one coordinate.
Token(kind, text, latitude, longitude) ==
    [kind |-> kind, text |-> text, latitude |-> latitude, longitude |-> longitude]
Fixed(kind) == Token(kind, <<>>, 0, 0)
PointToken(latitude, longitude) == Token("|lat,lon", <<>>, latitude, longitude)

----------------------------------------------------------------------------
(* buildEncodedCanonicalName *)

\* The end of the longest run of commas that starts at position i.
RECURSIVE CommasEnd(_, _)
CommasEnd(name, i) ==
    IF i <= Len(name) /\ name[i] = "," THEN CommasEnd(name, i + 1) ELSE i

\* .replace(/,+\s/g, ','): a run of commas and the whitespace after it
\* become one comma; a run no whitespace follows stays.
RECURSIVE StripAfterCommas(_, _)
StripAfterCommas(name, i) ==
    IF i > Len(name) THEN <<>>
    ELSE LET j == CommasEnd(name, i)
         IN  IF j > i /\ j <= Len(name) /\ IsSpace(name[j])
             THEN <<",">> \o StripAfterCommas(name, j + 1)
             ELSE <<name[i]>> \o StripAfterCommas(name, i + 1)

\* .replace(/\s+/g, '+'): every run of whitespace becomes one plus.
RECURSIVE PlusForSpaces(_, _)
PlusForSpaces(name, i) ==
    IF i > Len(name) THEN <<>>
    ELSE IF IsSpace(name[i])
    THEN IF i > 1 /\ IsSpace(name[i - 1])
         THEN PlusForSpaces(name, i + 1)
         ELSE <<"+">> \o PlusForSpaces(name, i + 1)
    ELSE <<name[i]>> \o PlusForSpaces(name, i + 1)

buildEncodedCanonicalName(canonicalName) ==
    PlusForSpaces(StripAfterCommas(canonicalName, 1), 1)

----------------------------------------------------------------------------
(* buildLocationShape *)

\* polygon.reduce(...) onto `&path=color:...`, then the first point again.
PathOpen(polygon) ==
    <<Fixed("&path=")>>
    \o [k \in 1..Len(polygon) |-> PointToken(polygon[k].latitude, polygon[k].longitude)]

PathFragment(polygon) ==
    PathOpen(polygon) \o <<PointToken(polygon[1].latitude, polygon[1].longitude)>>

CenterFragment(loc) ==
    <<Token("&center=", buildEncodedCanonicalName(loc.canonical_name[1]), 0, 0)>>

\* Faulty variant: a path from two points on.
MakesShapeFromTwo(polygon) == Len(polygon) >= 2

\* polygon.length > 2: at least 3 coordinate points needed to make a shape.
MakesShape(polygon) == Len(polygon) > 2

\* coordinates.reduce(...) onto the style.
RECURSIVE ShapeFragments(_, _)
ShapeFragments(loc, rings) ==
    IF rings = <<>> THEN <<>>
    ELSE (IF MakesShape(Head(rings)) THEN PathFragment(Head(rings)) ELSE CenterFragment(loc))
         \o ShapeFragments(loc, Tail(rings))

\* The optional location holds <<loc>>.  Returns what the call throws (""
\* when it returns) and the string returned.
buildLocationShape(loc, rings) ==
    IF Len(rings) = 0
    THEN [error |-> NO_COORDINATES_FOUND, text |-> <<>>]
    ELSE [error |-> "", text |-> <<Fixed("style")>> \o ShapeFragments(loc, rings)]

----------------------------------------------------------------------------
(* buildMapUrl *)

\* Faulty variant: an absent key rendered as the empty text.
KeyBlankWhenAbsent(key) ==
    Token("&key=", IF key = <<>> THEN <<>> ELSE key[1], 0, 0)

\* `&key=${apiKey}`
KeyToken(key) == Token("&key=", TextOf(key), 0, 0)

buildMapUrl(loc, rings, key) ==
    LET proximities == buildLocationShape(loc, rings)
    IN  IF proximities.error # ""
        THEN Threw(proximities.error)
        ELSE ReturnedUrl(<<Fixed("https://maps.googleapis.com/maps/api/staticmap"),
                           Fixed("?size=600x400&scale=2")>>
                         \o proximities.text \o <<KeyToken(key)>>)

----------------------------------------------------------------------------
(* The arguments the model hands to the shape and URL builders. *)

Coordinate(raw) == [longitude |-> raw[1], latitude |-> raw[2], distance |-> 0]

\* Condensed rings: the walks round the triangle from its second and third
\* corner, of every length up to MaxRingLen.
CondensedRings ==
    {[k \in 1..n |-> Coordinate(Path(s, n)[k])] : s \in 2..3, n \in 0..MaxRingLen}

CoordinateLists == SeqsUpTo(CondensedRings, 0, MaxRings)

TargetTypes == {"City", "Postal Code"}

\* Locations as the declared type has them: a name, and perhaps a target type.
TypedLocations ==
    {[canonical_name |-> <<name>>, target_type |-> t] :
        name \in Names, t \in {<<>>} \cup {<<tt>> : tt \in TargetTypes}}

\* An absent key, the empty key and a key.
ApiKeys == {<<>>, << <<>> >>, << <<"K">> >>}

----------------------------------------------------------------------------
(* doOpenStreetMapRequest, getGeojsonCoordinates, generateMapUrl *)

\* The url of the request, by the one piece of it that varies.
RequestFor(loc) ==
    Token("search.php?q=", buildEncodedCanonicalName(loc.canonical_name[1]), 0, 0)

IsPointResponse(response) ==
    response.geojson # <<>> /\ response.geojson[1].type = POINT

\* The candidate doOpenStreetMapRequest returns once the request resolved:
\* for a 'Postal Code' the first whose geojson is a Point, otherwise the
\* first; <<>> (undefined) when there is none.
SelectResponse(loc, responses) ==
    IF loc.target_type = <<"Postal Code">>
    THEN LET points == {i \in 1..Len(responses) : IsPointResponse(responses[i])}
         IN  IF points = {} THEN <<>>
             ELSE <<responses[CHOOSE i \in points : \A k \in points : i <= k]>>
    ELSE IF Len(responses) = 0 THEN <<>> ELSE <<responses[1]>>

\* Faulty variant: [[]] for [].
OneEmptyRingWhenAbsent == Condensed("", <<>>, <<>>, <<>>, << <<>> >>)

\* getGeojsonCoordinates returns [] when there is no response or no geojson.
NothingWhenAbsent == Condensed("", <<>>, <<>>, <<>>, <<>>)

HasGeojson(response) == response # <<>> /\ response[1].geojson # <<>>

getGeojsonCoordinates(response, consts) ==
    IF ~HasGeojson(response)
    THEN NothingWhenAbsent
    ELSE condenseCoordinates(response[1].geojson[1], consts)

\* Faulty variant: the location checked before the key.
CheckLocationFirst(loc, key) ==
    IF loc = <<>> \/ loc[1].canonical_name = <<>> \/ loc[1].target_type = <<>>
    THEN NO_LOCATION
    ELSE IF key = <<>> THEN NO_API_KEY ELSE ""

\* The two checks generateMapUrl makes before anything else: the message it
\* throws, "" when it goes on.
CheckArguments(loc, key) ==
    IF key = <<>> THEN NO_API_KEY
    ELSE IF loc = <<>> \/ loc[1].canonical_name = <<>> \/ loc[1].target_type = <<>>
    THEN NO_LOCATION
    ELSE ""

----------------------------------------------------------------------------
(* The arguments of generateMapUrl and the answers of OpenStreetMap. *)

\* Locations as a caller may pass them: absent, or with either field absent.
Locations ==
    {<<>>}
    \cup {<<[canonical_name |-> name, target_type |-> t]>> :
            name \in {<<>>} \cup {<<nm>> : nm \in Names},
            t \in {<<>>} \cup {<<tt>> : tt \in TargetTypes}}

CandidateKinds == {"no geojson", POINT, POLYGON, MULTIPOLYGON, "GeometryCollection"}
CandidateVariants == 1..2

\* Candidate v of a kind: a Point; a Polygon of two or of three points; a
\* MultiPolygon of no polygon or of two.
Candidate(kind, v) ==
    IF kind = "no geojson" THEN [geojson |-> <<>>]
    ELSE [geojson |->
            <<[type |-> kind,
               coordinates |->
                  IF kind = POINT THEN PointSeq[v + 1]
                  ELSE IF kind = POLYGON THEN <<Path(1, v + 1)>>
                  ELSE IF kind = MULTIPOLYGON
                  THEN (IF v = 1 THEN <<>> ELSE << <<Path(1, 3)>>, <<Path(2, 1)>> >>)
                  ELSE <<>>]>>]

----------------------------------------------------------------------------
(* State and actions. *)

Init ==
    /\ constants = DefaultConstants
    /\ pc = "idle"
    /\ call = ""
    /\ location = <<>>
    /\ apiKey = <<>>
    /\ geoJsonArg = NoGeometry
    /\ geoJson = NoGeometry
    /\ rawCoordinates = <<>>
    /\ frequencies = <<>>
    /\ coordinates = <<>>
    /\ result = NoResult
    /\ requests = <<>>
    /\ openStreetMapResponses = <<>>
    /\ openStreetMapResponse = <<>>

\* constants.DISTANCE_INTERVAL_FREQUENCY = ...; constants.MAX_POLYGON_COUNT = ...
SetConstants ==
    /\ pc = "idle"
    /\ \E f \in FrequencyValues, m \in PolygonCountValues :
          constants' = [DISTANCE_INTERVAL_FREQUENCY |-> f, MAX_POLYGON_COUNT |-> m]
    /\ UNCHANGED <<pc, call, location, apiKey, geoJsonArg, geoJson, rawCoordinates,
                   frequencies, coordinates, result, requests,
                   openStreetMapResponses, openStreetMapResponse>>

\* A caller invokes condenseCoordinates(geoJson).
CallCondenseCoordinates ==
    /\ pc = "idle"
    /\ \E kind \in GeometryKinds : \E geo \in GeometriesOf(kind) :
          LET c == condenseCoordinates(geo, constants)
          IN  /\ geoJsonArg' = geo
              /\ geoJson' = [geo EXCEPT !.coordinates = c.after]
              /\ rawCoordinates' = c.rawCoordinates
              /\ frequencies' = c.frequencies
              /\ coordinates' = c.coordinates
              /\ result' = IF c.error = "" THEN Returned ELSE Threw(c.error)
    /\ call' = "condenseCoordinates"
    /\ pc' = "done"
    /\ UNCHANGED <<constants, location, apiKey, requests,
                   openStreetMapResponses, openStreetMapResponse>>

\* A caller invokes buildLocationShape({ location, coordinates }).
CallBuildLocationShape ==
    /\ pc = "idle"
    /\ \E loc \in TypedLocations, rings \in CoordinateLists :
          LET shape == buildLocationShape(loc, rings)
          IN  /\ location' = <<loc>>
              /\ coordinates' = rings
              /\ result' = IF shape.error = "" THEN ReturnedUrl(shape.text)
                           ELSE Threw(shape.error)
    /\ call' = "buildLocationShape"
    /\ pc' = "done"
    /\ UNCHANGED <<constants, apiKey, geoJsonArg, geoJson, rawCoordinates, frequencies,
                   requests, openStreetMapResponses, openStreetMapResponse>>

\* A caller invokes buildMapUrl({ location, coordinates, apiKey }).
CallBuildMapUrl ==
    /\ pc = "idle"
    /\ \E loc \in TypedLocations, rings \in CoordinateLists, key \in ApiKeys :
          /\ location' = <<loc>>
          /\ coordinates' = rings
          /\ apiKey' = key
          /\ result' = buildMapUrl(loc, rings, key)
    /\ call' = "buildMapUrl"
    /\ pc' = "done"
    /\ UNCHANGED <<constants, geoJsonArg, geoJson, rawCoordinates, frequencies,
                   requests, openStreetMapResponses, openStreetMapResponse>>

\* A caller invokes generateMapUrl({ location, apiKey }): it runs up to the
\* await of the request, or throws before.
CallGenerateMapUrl ==
    /\ pc = "idle"
    /\ \E loc \in Locations, key \in ApiKeys :
          LET error == CheckArguments(loc, key)
          IN  /\ location' = loc
              /\ apiKey' = key
              /\ IF error # ""
                 THEN /\ result' = Threw(error)
                      /\ requests' = requests
                      /\ pc' = "done"
                 ELSE /\ result' = result
                      /\ requests' = Append(requests, RequestFor(loc[1]))
                      /\ pc' = "await"
    /\ call' = "generateMapUrl"
    /\ UNCHANGED <<constants, geoJsonArg, geoJson, rawCoordinates, frequencies,
                   coordinates, openStreetMapResponses, openStreetMapResponse>>

\* The request resolves: doOpenStreetMapRequest picks a candidate,
\* getGeojsonCoordinates condenses its geometry and buildMapUrl ends the call.
OpenStreetMapResponds ==
    /\ pc = "await"
    /\ \E n \in 0..MaxCandidates :
          \E kinds \in [1..n -> CandidateKinds], picks \in [1..n -> CandidateVariants] :
             LET responses == [i \in 1..n |-> Candidate(kinds[i], picks[i])]
                 response == SelectResponse(location[1], responses)
                 c == getGeojsonCoordinates(response, constants)
             IN  /\ openStreetMapResponses' = <<responses>>
                 /\ openStreetMapResponse' = response
                 /\ IF HasGeojson(response)
                    THEN /\ geoJsonArg' = response[1].geojson[1]
                         /\ geoJson' = [response[1].geojson[1] EXCEPT !.coordinates = c.after]
                    ELSE UNCHANGED <<geoJsonArg, geoJson>>
                 /\ rawCoordinates' = c.rawCoordinates
                 /\ frequencies' = c.frequencies
                 /\ coordinates' = c.coordinates
                 /\ result' = IF c.error # "" THEN Threw(c.error)
                              ELSE buildMapUrl(location[1], c.coordinates, apiKey)
    /\ pc' = "done"
    /\ UNCHANGED <<constants, call, location, apiKey, requests>>

\* The request fails: doOpenStreetMapRequest catches and throws its own error.
OpenStreetMapFails ==
    /\ pc = "await"
    /\ result' = Threw(FAILED_OPENSTREETMAP_REQUEST)
    /\ pc' = "done"
    /\ UNCHANGED <<constants, call, location, apiKey, geoJsonArg, geoJson, rawCoordinates,
                   frequencies, coordinates, requests, openStreetMapResponses,
                   openStreetMapResponse>>

\* The caller drops the call's values; the constants stay as they were set.
Finish ==
    /\ pc = "done"
    /\ pc' = "idle"
    /\ call' = ""
    /\ location' = <<>>
    /\ apiKey' = <<>>
    /\ geoJsonArg' = NoGeometry
    /\ geoJson' = NoGeometry
    /\ rawCoordinates' = <<>>
    /\ frequencies' = <<>>
    /\ coordinates' = <<>>
    /\ result' = NoResult
    /\ requests' = <<>>
    /\ openStreetMapResponses' = <<>>
    /\ openStreetMapResponse' = <<>>
    /\ UNCHANGED constants

Next == SetConstants \/ CallCondenseCoordinates \/ Finish

Spec == Init /\ [][Next]_vars

NextUrl == CallBuildLocationShape \/ CallBuildMapUrl \/ Finish

SpecUrl == Init /\ [][NextUrl]_vars

NextGenerate ==
    CallGenerateMapUrl \/ OpenStreetMapResponds \/ OpenStreetMapFails \/ Finish

SpecGenerate == Init /\ [][NextGenerate]_vars

----------------------------------------------------------------------------
(* Properties of condenseCoordinates. *)

CondenseDone == pc = "done" /\ call = "condenseCoordinates"
CondenseReturned == CondenseDone /\ result.status = "returned"

\* The raw coordinate a condensed coordinate was made from.
SamePlace(coordinate, raw) ==
    coordinate.longitude = raw[1] /\ coordinate.latitude = raw[2]

\* C3: for every geometry of kind Point, whatever its coordinates,
\* condenseCoordinates returns exactly one ring, and that ring is empty.
C3_PointYieldsOneEmptyRing ==
    (CondenseDone /\ geoJsonArg.type = POINT)
        => /\ result.status = "returned"
           /\ Len(coordinates) = 1
           /\ Len(coordinates[1]) = 0

C3_Witness ==
    /\ CondenseReturned
    /\ geoJsonArg.type = POINT
    /\ geoJsonArg.coordinates = <<3, 4>>
    /\ coordinates = << <<>> >>

\* C4: for every LineString, Polygon or MultiPolygon, the first element of
\* every ring condenseCoordinates returns has the longitude and latitude of
\* the first raw coordinate of the ring it was made from and distance 0,
\* whatever the distances, the frequency and the interval budget.
C4_FirstPointKept ==
    (CondenseReturned /\ geoJsonArg.type \in {LINESTRING, POLYGON, MULTIPOLYGON})
        => /\ Len(coordinates) = Len(rawCoordinates)
           /\ geoJsonArg.type \in {LINESTRING, POLYGON}
                 => rawCoordinates = <<geoJsonArg.coordinates[1]>>
           /\ \A j \in 1..Len(coordinates) :
                 /\ Len(coordinates[j]) >= 1
                 /\ SamePlace(coordinates[j][1], rawCoordinates[j][1])
                 /\ coordinates[j][1].distance = 0

\* A ring of several points, all in one place: its interval budget is 0.
C4_Witness ==
    /\ CondenseReturned
    /\ geoJsonArg.type = POLYGON
    /\ Len(rawCoordinates[1]) = MaxRingLen
    /\ TotalDistance(rawCoordinates[1]) = 0
    /\ SamePlace(coordinates[1][1], <<3, 4>>)

\* C5: for every MultiPolygon, the rings condenseCoordinates outputs are the
\* rings of min(K, MAX_POLYGON_COUNT) of its K polygons, taken in descending
\* order of first-ring point count; no ring of another polygon is output, and
\* every polygon left out has a first-ring point count no greater than that
\* of every polygon kept.
C5_LargestPolygonsKept ==
    (CondenseReturned /\ geoJsonArg.type = MULTIPOLYGON)
        => LET given == geoJsonArg.coordinates
               K == Len(given)
               n == Min(K, constants.MAX_POLYGON_COUNT)
               size(i) == Len(given[i][1])
           IN  /\ \E kept \in [1..n -> 1..K] :
                    /\ \A a, b \in 1..n : a # b => kept[a] # kept[b]
                    /\ \A a, b \in 1..n : a < b => size(kept[a]) >= size(kept[b])
                    /\ \A d \in 1..K :
                          (\A a \in 1..n : kept[a] # d)
                              => \A a \in 1..n : size(d) <= size(kept[a])
                    /\ rawCoordinates = Flatten([a \in 1..n |-> given[kept[a]]])
               /\ Len(coordinates) = Len(rawCoordinates)
               /\ \A j \in 1..Len(coordinates) :
                     \A k \in 1..Len(coordinates[j]) :
                        \E m \in 1..Len(rawCoordinates[j]) :
                           SamePlace(coordinates[j][k], rawCoordinates[j][m])

\* Three polygons given smallest first, two kept: the order is reversed and
\* the smallest is dropped.
C5_Witness ==
    /\ CondenseReturned
    /\ geoJsonArg.type = MULTIPOLYGON
    /\ constants.MAX_POLYGON_COUNT = 2
    /\ geoJsonArg.coordinates = << <<Path(1, 1)>>, <<Path(1, 2)>>, <<Path(1, 3)>> >>
    /\ rawCoordinates = <<Path(1, 3), Path(1, 2)>>
    /\ Len(coordinates) = 2

RECURSIVE RingCount(_, _)
RingCount(polygons, n) ==
    IF n = 0 THEN 0 ELSE Len(polygons[n]) + RingCount(polygons, n - 1)

\* C9 as stated: a MultiPolygon of K polygons, each of one or more rings,
\* yields exactly min(K, MAX_POLYGON_COUNT) condensed rings, never more than K.
C9_OneRingPerPolygon ==
    (CondenseReturned /\ geoJsonArg.type = MULTIPOLYGON)
        => LET K == Len(geoJsonArg.coordinates)
           IN  /\ Len(coordinates) = Min(K, constants.MAX_POLYGON_COUNT)
               /\ Len(coordinates) <= K

\* C9 amended: a MultiPolygon of K polygons yields one condensed ring per ring
\* of the min(K, MAX_POLYGON_COUNT) polygons kept (the first of the
\* coordinates as the call leaves them sorted): at least min(K,
\* MAX_POLYGON_COUNT) rings, exactly that many when every kept polygon has one
\* ring, and more than K when the kept polygons have more than K rings.
C9_OneRingPerKeptRing ==
    (CondenseReturned /\ geoJsonArg.type = MULTIPOLYGON)
        => LET K == Len(geoJsonArg.coordinates)
               n == Min(K, constants.MAX_POLYGON_COUNT)
           IN  /\ Len(geoJson.coordinates) = K
               /\ Len(coordinates) = RingCount(geoJson.coordinates, n)
               /\ Len(coordinates) >= n
               /\ (\A i \in 1..n : Len(geoJson.coordinates[i]) = 1)
                     => Len(coordinates) = n

\* Three two-ring polygons capped to two: four condensed rings.
C9_Witness ==
    /\ CondenseReturned
    /\ geoJsonArg.type = MULTIPOLYGON
    /\ Len(geoJsonArg.coordinates) = 3
    /\ \A i \in 1..3 : Len(geoJsonArg.coordinates[i]) = 2
    /\ constants.MAX_POLYGON_COUNT = 2
    /\ Len(coordinates) = 4

\* The position, among the sorted polygons, of the polygon that ring j of
\* rawCoordinates came from.
OwnerOf(polygons, j) ==
    CHOOSE i \in 1..Len(polygons) :
        RingCount(polygons, i - 1) < j /\ j <= RingCount(polygons, i)

\* C10: in a MultiPolygon a ring is condensed with the coarse frequency 10
\* exactly when it does not belong to one of the two largest kept polygons,
\* and every ring of the two largest with DISTANCE_INTERVAL_FREQUENCY; the
\* ring of a LineString or Polygon always with DISTANCE_INTERVAL_FREQUENCY.
C10_CoarseOutsideTwoLargest ==
    CondenseReturned
        => /\ geoJsonArg.type = MULTIPOLYGON
                => \A j \in 1..Len(frequencies) :
                      frequencies[j] =
                          IF OwnerOf(geoJson.coordinates, j) > 2
                          THEN COARSE_FREQUENCY
                          ELSE constants.DISTANCE_INTERVAL_FREQUENCY
           /\ geoJsonArg.type \in {LINESTRING, POLYGON}
                => frequencies = <<constants.DISTANCE_INTERVAL_FREQUENCY>>


----------------------------------------------------------------------------
(* Properties of the shape and URL builders. *)

ShapeDone == pc = "done" /\ call = "buildLocationShape"
MapUrlDone == pc = "done" /\ call = "buildMapUrl"

\* The number of tokens of the fragment of one ring, and the position of the
\* first token of the fragment of ring j (the style is token 1).
FragmentLen(ring) == IF Len(ring) > 2 THEN Len(ring) + 2 ELSE 1

RECURSIVE FragmentStart(_, _)
FragmentStart(rings, j) ==
    IF j = 1 THEN 2 ELSE FragmentStart(rings, j - 1) + FragmentLen(rings[j - 1])

\* C6: for every non-empty list of condensed rings buildLocationShape emits
\* the styling prefix and then exactly one fragment per ring, in ring order:
\* for a ring of more than 2 points a path listing its points as lat,lon in
\* order and its first point again; for a ring of 0, 1 or 2 points a
\* center=<encoded canonical name> and no path.
C6_OneFragmentPerRing ==
    (ShapeDone /\ Len(coordinates) > 0)
        => LET url == result.url
               n == Len(coordinates)
               name == location[1].canonical_name[1]
           IN  /\ result.status = "returned"
               /\ Len(url) = FragmentStart(coordinates, n) + FragmentLen(coordinates[n]) - 1
               /\ url[1] = Fixed("style")
               /\ \A j \in 1..n :
                     LET ring == coordinates[j]
                         o == FragmentStart(coordinates, j)
                     IN  IF Len(ring) > 2
                         THEN /\ url[o] = Fixed("&path=")
                              /\ \A k \in 1..Len(ring) :
                                    /\ url[o + k].kind = "|lat,lon"
                                    /\ url[o + k].latitude = ring[k].latitude
                                    /\ url[o + k].longitude = ring[k].longitude
                              /\ url[o + Len(ring) + 1].kind = "|lat,lon"
                              /\ url[o + Len(ring) + 1].latitude = ring[1].latitude
                              /\ url[o + Len(ring) + 1].longitude = ring[1].longitude
                         ELSE /\ url[o].kind = "&center="
                              /\ url[o].text = buildEncodedCanonicalName(name)

\* A ring of two points and then a ring of three, for the name "a ": a
\* center=a+ and then a closed path.
C6_Witness ==
    /\ ShapeDone
    /\ location[1].canonical_name = << <<"a", " ">> >>
    /\ Len(coordinates) = 2
    /\ Len(coordinates[1]) = 2
    /\ Len(coordinates[2]) = 3
    /\ result.url[2] = Token("&center=", <<"a", "+">>, 0, 0)
    /\ result.url[3] = Fixed("&path=")
    /\ Len(result.url) = 7
    /\ result.url[7] = result.url[4]

\* C7 as stated: buildMapUrl called with an absent apiKey fails with
\* NoApiKey, for every location and every ring list.
C7_AbsentKeyFails ==
    (MapUrlDone /\ apiKey = <<>>)
        => result.status = "threw" /\ result.error = NO_API_KEY

\* C7 amended: buildMapUrl called with an absent apiKey never fails with
\* NoApiKey: for an empty ring list it fails with NoCoordinatesFound, and for
\* every other ring list it returns a URL whose key fragment carries the
\* text "undefined".
C7_AbsentKeyIsNotChecked ==
    (MapUrlDone /\ apiKey = <<>>)
        => /\ result.error # NO_API_KEY
           /\ coordinates = <<>>
                 => result.status = "threw" /\ result.error = NO_COORDINATES_FOUND
           /\ coordinates # <<>>
                 => /\ result.status = "returned"
                    /\ result.url[Len(result.url)] = Token("&key=", UndefinedText, 0, 0)

C7_Witness ==
    /\ MapUrlDone
    /\ apiKey = <<>>
    /\ Len(coordinates) = 1
    /\ result.status = "returned"
    /\ result.url[Len(result.url)].text = UndefinedText

----------------------------------------------------------------------------
(* Properties of generateMapUrl. *)

GenerateDone == pc = "done" /\ call = "generateMapUrl"

LocationComplete ==
    /\ location # <<>>
    /\ location[1].canonical_name # <<>>
    /\ location[1].target_type # <<>>

\* The request resolved, and doOpenStreetMapRequest found no candidate or a
\* candidate without geojson.
BoundaryAbsent ==
    /\ GenerateDone
    /\ openStreetMapResponses # <<>>
    /\ ~HasGeojson(openStreetMapResponse)

HasToken(url, kind) == \E i \in 1..Len(url) : url[i].kind = kind

LocationLacking == ~LocationComplete

\* C2: generateMapUrl fails fast: with an absent apiKey it rejects with
\* NoApiKey, otherwise with an absent location, canonical name or category it
\* rejects with NoLocation, and in a call that ends in NoApiKey or NoLocation
\* no boundary request was issued and no URL was built.
C2_FailsFast ==
    call = "generateMapUrl"
        => /\ apiKey = <<>> => pc = "done" /\ result = Threw(NO_API_KEY)
           /\ (apiKey # <<>> /\ LocationLacking)
                 => pc = "done" /\ result = Threw(NO_LOCATION)
           /\ result.error \in {NO_API_KEY, NO_LOCATION}
                 => /\ requests = <<>>
                    /\ openStreetMapResponses = <<>>
                    /\ coordinates = <<>>
                    /\ result.url = <<>>
           /\ requests # <<>> => apiKey # <<>> /\ LocationComplete

\* Neither a key nor a location: NoApiKey, and nothing requested.
C2_Witness ==
    /\ GenerateDone
    /\ apiKey = <<>>
    /\ location = <<>>
    /\ result.error = NO_API_KEY
    /\ requests = <<>>

----------------------------------------------------------------------------
(* Properties of the resampling of one ring. *)

\* The distance of raw coordinate i of a ring to its predecessor, and the
\* sum of these distances over the positions lo..hi.
PredecessorDistance(raw, i) ==
    IF i = 1 THEN 0 ELSE calculateCoordinateSeparation(raw[i], raw[i - 1])

RECURSIVE RangeDistance(_, _, _)
RangeDistance(raw, lo, hi) ==
    IF lo > hi THEN 0
    ELSE PredecessorDistance(raw, hi) + RangeDistance(raw, lo, hi - 1)

\* The k-th smallest member of a set of positions.
Nth(S, k) == CHOOSE i \in S : Cardinality({m \in S : m <= i}) = k

\* The last position before i that is in S (position 1 always is).
LastBefore(S, i) == CHOOSE l \in S : l < i /\ \A m \in S : m < i => m <= l

\* C11: every ring condenseCoordinates returns is the greedy arc-length
\* resampling of the ring it was made from: an order-preserving subsequence
\* of the raw points, in which a point after the first is kept if and only
\* if the predecessor-distances of the points after the last kept point up
\* to and including it sum to strictly more than totalDistance / frequency,
\* and every kept point carries its own predecessor-distance as distance.
C11_GreedyResampling ==
    (CondenseReturned /\ geoJsonArg.type # POINT)
        => /\ Len(coordinates) = Len(rawCoordinates)
           /\ \A j \in 1..Len(coordinates) :
                 LET raw == rawCoordinates[j]
                     out == coordinates[j]
                     total == RangeDistance(raw, 1, Len(raw))
                 IN  \E S \in SUBSET (1..Len(raw)) :
                        /\ 1 \in S
                        /\ Cardinality(S) = Len(out)
                        /\ \A k \in 1..Len(out) :
                              LET i == Nth(S, k)
                              IN  out[k] = [longitude |-> raw[i][1],
                                            latitude |-> raw[i][2],
                                            distance |-> PredecessorDistance(raw, i)]
                        /\ \A i \in 2..Len(raw) :
                              i \in S
                                <=> RangeDistance(raw, LastBefore(S, i) + 1, i)
                                        * frequencies[j] > total

\* A ring whose second point is kept and whose third, in the same place as
\* the second, is not: the sum starts again at the point kept.
C11_Witness ==
    /\ CondenseReturned
    /\ geoJsonArg.type = POLYGON
    /\ rawCoordinates = << << <<0, 0>>, <<3, 4>>, <<3, 4>> >> >>
    /\ coordinates = << << [longitude |-> 0, latitude |-> 0, distance |-> 0],
                           [longitude |-> 3, latitude |-> 4, distance |-> 5] >> >>

\* C12 as stated: for every ring of at least 2 points whose total distance
\* is 0 the interval budget is 0 and every point after the first exceeds it,
\* so condenseCoordinates keeps every point of the ring.
C12_DegenerateRingKeptWhole ==
    CondenseReturned
        => \A j \in 1..Len(rawCoordinates) :
              (Len(rawCoordinates[j]) >= 2 /\ TotalDistance(rawCoordinates[j]) = 0)
                  => Len(coordinates[j]) = Len(rawCoordinates[j])

\* C12 amended: for every ring of at least 2 points whose total distance is
\* 0 the interval budget is 0 and no point after the first exceeds it (the
\* accumulated distance is 0, and 0 > 0 is false), so condenseCoordinates
\* keeps the first point of the ring alone.
C12_DegenerateRingKeepsFirstPoint ==
    CondenseReturned
        => \A j \in 1..Len(rawCoordinates) :
              (Len(rawCoordinates[j]) >= 2 /\ TotalDistance(rawCoordinates[j]) = 0)
                  => /\ \A i \in 1..Len(rawCoordinates[j]) :
                           rawCoordinates[j][i] = rawCoordinates[j][1]
                     /\ coordinates[j] =
                           <<[longitude |-> rawCoordinates[j][1][1],
                              latitude |-> rawCoordinates[j][1][2],
                              distance |-> 0]>>

\* A LineString of MaxRingLen points in one place, condensed to one point.
C12_Witness ==
    /\ CondenseReturned
    /\ geoJsonArg.type = LINESTRING
    /\ Len(rawCoordinates[1]) = MaxRingLen
    /\ \A i \in 1..MaxRingLen : rawCoordinates[1][i] = <<3, 0>>
    /\ Len(coordinates[1]) = 1

\* C13: condenseCoordinates never mutates the geometry it is given: after it
\* returns or fails, the coordinates of a LineString, Polygon or MultiPolygon
\* hold the same polygons, rings and points in the same order as before.
C13_GeometryNotMutated ==
    (CondenseDone /\ geoJsonArg.type \in {LINESTRING, POLYGON, MULTIPOLYGON})
        => geoJson.coordinates = geoJsonArg.coordinates

====
